---------------------------- MODULE Spec2Model ----------------------------
(***************************************************************************)
(* A model of onedrive_downloader's concurrent download engine             *)
(* (downloader.py) and of the helpers it calls (utils.py).                 *)
(*                                                                         *)
(* One run of ImageDownloader.download_all is modelled as the asyncio      *)
(* event loop runs it: every task step between two suspension points is    *)
(* one atomic action.  The remote server, the clock and the file system    *)
(* are the environment: an action exists for each way a request, a write   *)
(* or an unlink can end.                                                   *)
(***************************************************************************)
EXTENDS Integers, Sequences, FiniteSets, TLC

(***************************************************************************)
(* Bounds of the model.                                                    *)
(***************************************************************************)
MaxEntries == 2      \* entries of a run
MaxRequests == 4     \* GET requests a run can issue: entries times max_retries
MaxConcurrent == 2   \* the concurrency cap
MaxRerunRequests == 2 \* GET requests of the first of two runs over one directory
MaxChunks == 1       \* chunks of a response body
MaxChildren == 2     \* items of an album; a subfolder holds one less
MaxAffix == 2        \* characters before, and after, the padding of a filename
MaxOver == 2         \* how far the padding of a filename goes beyond the length limit
MaxTopLimb == 1      \* the multiple of 1024^5 in a byte count
MaxPath == 3         \* characters of a URL's path after the first slash

(***************************************************************************)
(* Characters are one-character strings, a string is a sequence of them.   *)
(***************************************************************************)
ControlChars == {"\t", "\n", "\r", "\f"}
InvalidChars == {"<", ">", ":", "\"", "/", "\\", "|", "?", "*"} \cup ControlChars
StripChars == {".", " "}
MaxNameLength == 255
Unnamed == <<"u", "n", "n", "a", "m", "e", "d">>

\* re.sub(invalid_chars, '_', filename)
ReplaceInvalid(s) == [k \in 1..Len(s) |-> IF s[k] \in InvalidChars THEN "_" ELSE s[k]]

RECURSIVE LStrip(_)
LStrip(s) == IF s # <<>> /\ Head(s) \in StripChars THEN LStrip(Tail(s)) ELSE s

RECURSIVE RStrip(_)
RStrip(s) ==
    IF s # <<>> /\ s[Len(s)] \in StripChars THEN RStrip(SubSeq(s, 1, Len(s) - 1)) ELSE s

\* str.strip('. ')
Strip(s) == RStrip(LStrip(s))

\* str.rfind('.') within the first k characters, 1-based, 0 when there is no dot
RFindDot(s, k) ==
    LET dots == {j \in 1..k : s[j] = "."}
    IN  IF dots = {} THEN 0 ELSE CHOOSE j \in dots : \A d \in dots : d <= j

\* pathlib's PurePath.suffix of a name without separators
PathSuffix(s) ==
    LET i == RFindDot(s, Len(s))
    IN  IF 1 < i /\ i < Len(s) THEN SubSeq(s, i, Len(s)) ELSE <<>>

\* pathlib's PurePath.stem
PathStem(s) ==
    LET i == RFindDot(s, Len(s))
    IN  IF 1 < i /\ i < Len(s) THEN SubSeq(s, 1, i - 1) ELSE s

\* Python's s[:k], k possibly negative
SliceTo(s, k) ==
    IF k >= 0 THEN SubSeq(s, 1, IF k < Len(s) THEN k ELSE Len(s))
    ELSE SubSeq(s, 1, IF Len(s) + k > 0 THEN Len(s) + k ELSE 0)

Truncate(s) ==
    IF Len(s) > MaxNameLength
    THEN SliceTo(PathStem(s), MaxNameLength - Len(PathSuffix(s))) \o PathSuffix(s)
    ELSE s

sanitize_filename_no_default(filename) == Truncate(Strip(ReplaceInvalid(filename)))

sanitize_filename(filename) ==
    LET sanitized == Truncate(Strip(ReplaceInvalid(filename)))
    IN  IF sanitized = <<>> THEN Unnamed ELSE sanitized

(***************************************************************************)
(* The inputs of a run.                                                    *)
(***************************************************************************)
\* Display names of catalog entries; an entry list may repeat a name.
Filenames == {<<"a">>, <<"b", "?">>}
Paths == {sanitize_filename(f) : f \in Filenames}

\* safe_filename of each name an entry may have
SafeFilenames == [f \in Filenames |-> sanitize_filename(f)]

VARIABLES
    entries,            \* image_items: the display name of each entry, in input order
    concurrent,         \* ImageDownloader.concurrent
    max_retries,        \* ImageDownloader.max_retries
    progress_callback,  \* TRUE when a callback is given
    callback_raises,    \* TRUE when a call of the callback may raise
    files,              \* the output directory: path -> file
    files0,             \* the output directory when the current run started
    semaphore,          \* the value of the asyncio.Semaphore
    unit,               \* per entry: the state of its download_image task
    started,            \* how many tasks have run their first step
    completed,          \* the entries in the order their tasks ended
    phase,              \* of the run: "constructing", "constructed", "running",
                        \* "returned", "raised", "interrupted"
    results,            \* what download_all returned
    run,                \* "first" or "second" run over the same directory
    prev,               \* the results of the first run, during the second
    exit_status,        \* of the command line: <<>> while it runs, <<n>> after sys.exit(n)
    call                \* a call of a function outside a run: its name, argument and value

vars == <<entries, concurrent, max_retries, progress_callback, callback_raises, files, files0,
          semaphore, unit, started, completed, phase, results, run, prev, exit_status,
          call>>

inputs == <<entries, concurrent, max_retries, progress_callback, callback_raises>>

Units == 1..Len(entries)

\* No function is being called.
NoCall == [fn |-> "", arg |-> <<>>, ret |-> <<>>, done |-> FALSE]

\* output_path of entry i (downloader.py 71-72)
Dest(i) == SafeFilenames[entries[i]]

\* An inode is named by the task and attempt that created it; PreIno names a
\* file that was in the directory before the first run.
PreIno == <<0, 0>>
NoFile == [exists |-> FALSE, ino |-> PreIno, size |-> 0]

NoResult == [filename |-> <<>>, success |-> FALSE, error |-> "", size |-> 0,
             skipped |-> FALSE, made |-> FALSE]

DownloadResultNoError(filename, success, error, size, skipped) ==
    [filename |-> filename, success |-> success, error |-> "", size |-> size,
     skipped |-> skipped, made |-> TRUE]

\* DownloadResult.__init__
DownloadResult(filename, success, error, size, skipped) ==
    [filename |-> filename, success |-> success, error |-> error, size |-> size,
     skipped |-> skipped, made |-> TRUE]

IsSkipped(r) == r.made /\ r.skipped
IsSuccess(r) == r.made /\ r.success /\ ~r.skipped
IsFailed(r) == r.made /\ ~r.success

NewUnit ==
    [pc |-> "new", attempt |-> 0, total_size |-> 0, ino |-> PreIno, nreq |-> 0,
     nfail |-> 0, sleeps |-> <<>>, result |-> NoResult, ncb |-> 0,
     reported |-> NoResult, held |-> FALSE, exc |-> ""]

\* A directory before the first run: each path free, or taken by an older file.
InitFiles == [Paths -> {NoFile, [exists |-> TRUE, ino |-> PreIno, size |-> MaxChunks]}]

EntryLists == UNION {[1..n -> Filenames] : n \in 0..MaxEntries}

\* The state when download_all is entered.  The inputs are any entry list,
\* cap and retry count within the bounds; the directory is any of InitFiles.
Init ==
    /\ entries \in EntryLists
    /\ concurrent \in 0..MaxConcurrent
    /\ max_retries \in 0..MaxRequests
    /\ Len(entries) * max_retries <= MaxRequests
    /\ progress_callback \in BOOLEAN
    /\ callback_raises = FALSE
    /\ files \in InitFiles
    /\ files0 = files
    /\ semaphore = concurrent
    /\ unit = [i \in Units |-> NewUnit]
    /\ started = 0
    /\ completed = <<>>
    /\ phase = "running"
    /\ results = <<>>
    /\ run = "first"
    /\ prev = <<>>
    /\ exit_status = <<>>
    /\ call = NoCall


(***************************************************************************)
(* Helpers of download_image.                                              *)
(***************************************************************************)
Max(a, b) == IF a >= b THEN a ELSE b

RECURSIVE Pow2(_)
Pow2(n) == IF n = 0 THEN 1 ELSE 2 * Pow2(n - 1)

PathExistsNever(p) == FALSE

PathExistsNonEmpty(p) == files[p].exists /\ files[p].size > 0

PathExistsOrClaimed(p) ==
    \/ files[p].exists
    \/ \E j \in DOMAIN unit :
           unit[j].pc \in {"wait", "req", "stream", "sleep"} /\ sanitize_filename(entries[j]) = p

\* output_path.exists()
PathExists(p) == files[p].exists

SemLockedNever == FALSE

\* Semaphore.locked(): acquire() suspends the task exactly when this holds
SemLocked == semaphore <= 0

BackoffLinear(attempt) == 2 * attempt

\* the delay of asyncio.sleep(2 ** attempt)
Backoff(attempt) == Pow2(attempt)

LastAttemptEarly(attempt) == ~(attempt < max_retries - 2)

\* "attempt < self.max_retries - 1" is false
LastAttempt(attempt) == ~(attempt < max_retries - 1)

OpenAppend(p, i, attempt) ==
    IF files[p].exists THEN files[p]
    ELSE [exists |-> TRUE, ino |-> <<i, attempt + 1>>, size |-> 0]

\* aiofiles.open(output_path, 'wb'): truncate the file, or create it
OpenWb(p, i, attempt) ==
    IF files[p].exists THEN [files[p] EXCEPT !.size = 0]
    ELSE [exists |-> TRUE, ino |-> <<i, attempt + 1>>, size |-> 0]

\* f.write(chunk) of one chunk at the handle's offset; a handle whose inode is
\* no longer the one at the path writes to an unlinked file
WriteAt(p, ino, offset) ==
    IF files[p].exists /\ files[p].ino = ino
    THEN [files[p] EXCEPT !.size = Max(@, offset + 1)]
    ELSE files[p]

\* The ways a call of the callback can end: TRUE when it raises.
CallbackOutcomes == IF progress_callback /\ callback_raises THEN BOOLEAN ELSE {FALSE}

\* The task's state after progress_callback(r) was called and raised.
Called(u, r) == [u EXCEPT !.ncb = @ + 1, !.reported = r]

\* An exception leaves download_image: the semaphore is released, the task ends
\* with the exception, and gather hands it to download_all, which raises.
RaiseFrom(i, u, sem, fs) ==
    /\ unit' = [unit EXCEPT ![i] =
                   [u EXCEPT !.pc = "raised", !.held = FALSE, !.total_size = 0,
                             !.ino = PreIno, !.exc = ""]]
    /\ semaphore' = IF u.held THEN sem + 1 ELSE sem
    /\ phase' = "raised"
    /\ files' = fs
    /\ UNCHANGED completed

DeliverSilentSkip(i, u, r, sem, fs) ==
    /\ unit' = [unit EXCEPT ![i] =
                   [u EXCEPT !.pc = "done", !.result = r, !.held = FALSE,
                             !.total_size = 0, !.ino = PreIno, !.exc = "",
                             !.ncb = IF progress_callback /\ ~r.skipped THEN @ + 1 ELSE @,
                             !.reported = IF progress_callback /\ ~r.skipped THEN r ELSE @]]
    /\ semaphore' = IF u.held THEN sem + 1 ELSE sem
    /\ completed' = Append(completed, i)
    /\ files' = fs
    /\ phase' = phase

\* A task returns r after the callback, if any, was called with it and
\* returned: "async with semaphore" (when entered) is left, and the task ends.
\* u is the task's state so far, sem the semaphore's value so far, fs the
\* directory so far.
Deliver(i, u, r, sem, fs) ==
    /\ unit' = [unit EXCEPT ![i] =
                   [u EXCEPT !.pc = "done", !.result = r, !.held = FALSE,
                             !.total_size = 0, !.ino = PreIno, !.exc = "",
                             !.ncb = IF progress_callback THEN @ + 1 ELSE @,
                             !.reported = IF progress_callback THEN r ELSE @]]
    /\ semaphore' = IF u.held THEN sem + 1 ELSE sem
    /\ completed' = Append(completed, i)
    /\ files' = fs
    /\ phase' = phase

\* result = DownloadResult(...); if progress_callback: progress_callback(result);
\* return result, at a place where an exception of the callback leaves
\* download_image: the skip path, the two except handlers and the code after
\* the loop.
Return(i, u, r, sem, fs) ==
    \E raises \in CallbackOutcomes :
        IF raises THEN RaiseFrom(i, Called(u, r), sem, fs)
        ELSE Deliver(i, u, r, sem, fs)

\* An exception raised before the directory is touched leaves download_image.
Raise(i, u) == RaiseFrom(i, u, semaphore, files)

SleepOutsideSemaphore(i, u) ==
    /\ unit' = [unit EXCEPT ![i] =
                   [u EXCEPT !.pc = "sleep", !.total_size = 0, !.ino = PreIno, !.exc = "",
                             !.held = FALSE,
                             !.sleeps = Append(@, Backoff(u.attempt))]]
    /\ semaphore' = IF u.held THEN semaphore + 1 ELSE semaphore
    /\ UNCHANGED <<completed, files, phase>>

\* await asyncio.sleep(2 ** attempt)
Sleep(i, u) ==
    /\ unit' = [unit EXCEPT ![i] =
                   [u EXCEPT !.pc = "sleep", !.total_size = 0, !.ino = PreIno, !.exc = "",
                             !.sleeps = Append(@, Backoff(u.attempt))]]
    /\ UNCHANGED <<semaphore, completed, files, phase>>

\* The head of "for attempt in range(self.max_retries)" at `attempt`: issue the
\* GET, or fall out of an exhausted range to the code after the loop.
RunLoop(i, u, attempt, sem) ==
    IF attempt < max_retries
    THEN /\ unit' = [unit EXCEPT ![i] =
                        [u EXCEPT !.pc = "req", !.attempt = attempt, !.nreq = @ + 1,
                                  !.total_size = 0]]
         /\ semaphore' = sem
         /\ UNCHANGED <<completed, files, phase>>
    ELSE Return(i, u, DownloadResult(Dest(i), FALSE, "Unknown error", 0, FALSE), sem, files)

\* except asyncio.TimeoutError
OnTimeout(i, u) ==
    IF ~LastAttempt(u.attempt) THEN Sleep(i, u)
    ELSE Return(i, u, DownloadResult(Dest(i), FALSE, "Timeout", 0, FALSE), semaphore, files)

\* except Exception as e, u.exc being the type name of e, with which the error
\* message starts; unlink_ok tells whether output_path.unlink() succeeds
OnException(i, u, unlink_ok) ==
    IF ~LastAttempt(u.attempt) THEN Sleep(i, u)
    ELSE IF PathExists(Dest(i)) /\ ~unlink_ok THEN Raise(i, u)
    ELSE Return(i, u, DownloadResult(Dest(i), FALSE, u.exc, 0, FALSE), semaphore,
                IF PathExists(Dest(i)) THEN [files EXCEPT ![Dest(i)] = NoFile] ELSE files)

GatherAsCompleted == [k \in 1..Len(completed) |-> unit[completed[k]].result]

\* asyncio.gather(*tasks): the results in the order of the tasks
GatherResults == [i \in Units |-> unit[i].result]

Failing(u) == [u EXCEPT !.nfail = @ + 1]

\* An attempt fails with an exception of type e.
Catching(u, e) == [Failing(u) EXCEPT !.exc = e]

(***************************************************************************)
(* The actions.  gather creates the tasks in input order and the loop runs *)
(* each task's first step in that order before it handles any I/O.         *)
(***************************************************************************)
frame == <<inputs, files0, results, run, prev, exit_status, call>>

StartUnitAcquireFirst ==
    /\ phase = "running"
    /\ started < Len(entries)
    /\ LET i == started + 1
           u == unit[i]
       IN  /\ started' = i
           /\ IF SemLocked
              THEN /\ unit' = [unit EXCEPT ![i] = [u EXCEPT !.pc = "wait"]]
                   /\ UNCHANGED <<semaphore, completed, files, phase>>
              ELSE IF PathExists(Dest(i))
              THEN Return(i, u, DownloadResult(Dest(i), TRUE, "", files[Dest(i)].size, TRUE),
                          semaphore, files)
              ELSE RunLoop(i, [u EXCEPT !.held = TRUE], 0, semaphore - 1)
    /\ UNCHANGED frame

\* The first step of the next task: lines 70-91, up to the first suspension.
StartUnit ==
    /\ phase = "running"
    /\ started < Len(entries)
    /\ LET i == started + 1
           u == unit[i]
       IN  /\ started' = i
           /\ IF PathExists(Dest(i))
              THEN Return(i, u, DownloadResult(Dest(i), TRUE, "", files[Dest(i)].size, TRUE),
                          semaphore, files)
              ELSE IF SemLocked
              THEN /\ unit' = [unit EXCEPT ![i] = [u EXCEPT !.pc = "wait"]]
                   /\ UNCHANGED <<semaphore, completed, files, phase>>
              ELSE RunLoop(i, [u EXCEPT !.held = TRUE], 0, semaphore - 1)
    /\ UNCHANGED frame

Running(i) == phase = "running" /\ started = Len(entries) /\ i \in Units

\* A released slot wakes the longest-waiting task, which enters the loop.
Admit(i) ==
    /\ Running(i)
    /\ unit[i].pc = "wait"
    /\ \A j \in 1..(i - 1) : unit[j].pc # "wait"
    /\ ~SemLocked
    /\ RunLoop(i, [unit[i] EXCEPT !.held = TRUE], 0, semaphore - 1)
    /\ UNCHANGED <<frame, started>>

\* session.get raises: the connection fails.
GetFails(i) ==
    /\ Running(i)
    /\ unit[i].pc = "req"
    /\ \E unlink_ok \in BOOLEAN : OnException(i, Catching(unit[i], "ClientConnectorError"), unlink_ok)
    /\ UNCHANGED <<frame, started>>

BadStatusAfterOpen(i) ==
    /\ Running(i)
    /\ unit[i].pc = "stream"
    /\ \E unlink_ok \in BOOLEAN :
           OnException(i, Catching(unit[i], "ClientResponseError"), unlink_ok)
    /\ UNCHANGED <<frame, started>>

\* response.raise_for_status() raises: a status of 400 or more.
BadStatus(i) ==
    /\ Running(i)
    /\ unit[i].pc = "req"
    /\ \E unlink_ok \in BOOLEAN : OnException(i, Catching(unit[i], "ClientResponseError"), unlink_ok)
    /\ UNCHANGED <<frame, started>>

\* aiofiles.open raises: the file cannot be created.
OpenFails(i) ==
    /\ Running(i)
    /\ unit[i].pc = "req"
    /\ \E unlink_ok \in BOOLEAN : OnException(i, Catching(unit[i], "OSError"), unlink_ok)
    /\ UNCHANGED <<frame, started>>

\* A success status arrives and the destination file is opened for writing.
OpenFile(i) ==
    /\ Running(i)
    /\ unit[i].pc = "req"
    /\ LET f == OpenWb(Dest(i), i, unit[i].attempt)
       IN  /\ files' = [files EXCEPT ![Dest(i)] = f]
           /\ unit' = [unit EXCEPT ![i] =
                          [@ EXCEPT !.pc = "stream", !.ino = f.ino, !.total_size = 0]]
    /\ UNCHANGED <<frame, started, semaphore, completed, phase>>

\* One chunk of the body is written to the file.
WriteChunk(i) ==
    /\ Running(i)
    /\ unit[i].pc = "stream"
    /\ unit[i].total_size < MaxChunks
    /\ files' = [files EXCEPT ![Dest(i)] = WriteAt(Dest(i), unit[i].ino, unit[i].total_size)]
    /\ unit' = [unit EXCEPT ![i] = [@ EXCEPT !.total_size = @ + 1]]
    /\ UNCHANGED <<frame, started, semaphore, completed, phase>>

\* Reading the body or writing the file raises.
StreamFails(i) ==
    /\ Running(i)
    /\ unit[i].pc = "stream"
    /\ \E unlink_ok \in BOOLEAN : OnException(i, Catching(unit[i], "ClientPayloadError"), unlink_ok)
    /\ UNCHANGED <<frame, started>>

\* The request's total timeout expires, before or during the body.
Timeout(i) ==
    /\ Running(i)
    /\ unit[i].pc \in {"req", "stream"}
    /\ OnTimeout(i, Failing(unit[i]))
    /\ UNCHANGED <<frame, started>>

\* The body ends: lines 101-110.  The callback is called inside the try, so
\* an exception it raises is caught by "except Exception" like a failed attempt.
StreamEnds(i) ==
    /\ Running(i)
    /\ unit[i].pc = "stream"
    /\ LET r == DownloadResult(Dest(i), TRUE, "", unit[i].total_size, FALSE)
       IN  \E raises \in CallbackOutcomes :
               IF raises
               THEN \E unlink_ok \in BOOLEAN :
                        OnException(i, Catching(Called(unit[i], r), "CallbackError"), unlink_ok)
               ELSE Deliver(i, unit[i], r, semaphore, files)
    /\ UNCHANGED <<frame, started>>

\* The backoff sleep ends and the loop goes to the next attempt.
Wake(i) ==
    /\ Running(i)
    /\ unit[i].pc = "sleep"
    /\ RunLoop(i, unit[i], unit[i].attempt + 1, semaphore)
    /\ UNCHANGED <<frame, started>>

AllDone == started = Len(entries) /\ \A i \in Units : unit[i].pc = "done"

\* Every task has returned: gather's future completes and download_all returns.
ReturnAll ==
    /\ phase = "running"
    /\ AllDone
    /\ phase' = "returned"
    /\ results' = GatherResults
    /\ UNCHANGED <<inputs, files, files0, semaphore, unit, started, completed, run, prev,
                   exit_status, call>>

\* The same entries are downloaded again to the same directory, by a new
\* ImageDownloader with the same settings.
Rerun ==
    /\ phase = "returned"
    /\ run = "first"
    /\ run' = "second"
    /\ prev' = results
    /\ results' = <<>>
    /\ phase' = "running"
    /\ files' = [p \in Paths |-> IF files[p].exists THEN [files[p] EXCEPT !.ino = PreIno]
                                 ELSE files[p]]
    /\ files0' = files'
    /\ semaphore' = concurrent
    /\ unit' = [i \in Units |-> NewUnit]
    /\ started' = 0
    /\ completed' = <<>>
    /\ UNCHANGED <<inputs, exit_status, call>>

Next ==
    \/ StartUnit
    \/ \E i \in Units : Admit(i)
    \/ \E i \in Units : GetFails(i)
    \/ \E i \in Units : BadStatus(i)
    \/ \E i \in Units : OpenFails(i)
    \/ \E i \in Units : OpenFile(i)
    \/ \E i \in Units : WriteChunk(i)
    \/ \E i \in Units : StreamFails(i)
    \/ \E i \in Units : Timeout(i)
    \/ \E i \in Units : StreamEnds(i)
    \/ \E i \in Units : Wake(i)
    \/ ReturnAll

\* One run of download_all.
Spec == Init /\ [][Next]_vars

NextResume ==
    \/ Next
    \/ Rerun

\* One run of download_all in which the event loop keeps running what can run:
\* a ready task is resumed, and a request ends with an answer, an error or
\* the expiry of its total timeout.
SpecLive == Init /\ [][Next]_vars /\ WF_vars(Next)

\* One run of download_all with a positive cap and a progress callback.
InitLimiter == Init /\ concurrent >= 1 /\ progress_callback = TRUE

SpecLimiter == InitLimiter /\ [][Next]_vars

\* A run of download_all, and a second one over the directory it left.
SpecResume == Init /\ [][NextResume]_vars


\* Two runs are explored for entry lists no longer than the set of names,
\* which hold every pattern of equal and different names, and few requests.
InitRerun ==
    /\ Init
    /\ Len(entries) <= Cardinality(Filenames)
    /\ Len(entries) * max_retries <= MaxRerunRequests

\* Two runs over one directory.
SpecRerun == InitRerun /\ [][NextResume]_vars

(***************************************************************************)
(* Setup: the constructor and the entry of download_all, for any integer   *)
(* given as the concurrency value.                                         *)
(***************************************************************************)
InitSetup ==
    /\ entries \in EntryLists
    /\ concurrent \in -1..MaxConcurrent
    /\ max_retries \in 0..MaxRequests
    /\ Len(entries) * max_retries <= MaxRequests
    /\ progress_callback \in BOOLEAN
    /\ callback_raises = FALSE
    /\ files \in InitFiles
    /\ files0 = files
    /\ semaphore = 0
    /\ unit = [i \in Units |-> NewUnit]
    /\ started = 0
    /\ completed = <<>>
    /\ phase = "constructing"
    /\ results = <<>>
    /\ run = "first"
    /\ prev = <<>>
    /\ exit_status = <<>>
    /\ call = NoCall

\* ImageDownloader.__init__: output_dir.mkdir(parents=True, exist_ok=True)
\* creates the directory or raises.
Construct ==
    /\ phase = "constructing"
    /\ \E mkdir_ok \in BOOLEAN : phase' = IF mkdir_ok THEN "constructed" ELSE "raised"
    /\ UNCHANGED <<inputs, files, files0, semaphore, unit, started, completed, results,
                   run, prev, exit_status, call>>

\* download_all, lines 167-175: asyncio.Semaphore(concurrent) raises ValueError
\* for a negative value and accepts every other one.
EnterDownloadAll ==
    /\ phase = "constructed"
    /\ IF concurrent < 0
       THEN phase' = "raised" /\ UNCHANGED semaphore
       ELSE phase' = "running" /\ semaphore' = concurrent
    /\ UNCHANGED <<inputs, files, files0, unit, started, completed, results, run, prev,
                   exit_status, call>>

NextSetup ==
    \/ Construct
    \/ EnterDownloadAll
    \/ Next

\* A downloader is constructed and download_all is run once.
SpecSetup == InitSetup /\ [][NextSetup]_vars


(***************************************************************************)
(* A run with a progress callback whose calls may raise.                   *)
(***************************************************************************)
InitCallback ==
    /\ entries \in EntryLists
    /\ concurrent \in 0..MaxConcurrent
    /\ max_retries \in 0..MaxRequests
    /\ Len(entries) * max_retries <= MaxRequests
    /\ progress_callback = TRUE
    /\ callback_raises = TRUE
    /\ files \in InitFiles
    /\ files0 = files
    /\ semaphore = concurrent
    /\ unit = [i \in Units |-> NewUnit]
    /\ started = 0
    /\ completed = <<>>
    /\ phase = "running"
    /\ results = <<>>
    /\ run = "first"
    /\ prev = <<>>
    /\ exit_status = <<>>
    /\ call = NoCall

SpecCallback == InitCallback /\ [][Next]_vars


(***************************************************************************)
(* get_stats.                                                              *)
(***************************************************************************)
RECURSIVE SumSizes(_, _)
\* sum(r.size for r in results if <keep r>), keep being the indexes kept
SumSizes(rs, keep) ==
    IF keep = {} THEN 0
    ELSE LET k == CHOOSE x \in keep : TRUE
         IN  rs[k].size + SumSizes(rs, keep \ {k})

get_stats_downloaded_only(rs) ==
    LET total == Len(rs)
        successful == Cardinality({k \in DOMAIN rs : rs[k].success})
        skipped == Cardinality({k \in DOMAIN rs : rs[k].skipped})
    IN  [total |-> total, successful |-> successful, downloaded |-> successful - skipped,
         skipped |-> skipped, failed |-> total - successful,
         total_size |-> SumSizes(rs, {k \in DOMAIN rs : rs[k].success /\ ~rs[k].skipped})]

get_stats_failed_from_downloaded(rs) ==
    LET total == Len(rs)
        successful == Cardinality({k \in DOMAIN rs : rs[k].success})
        skipped == Cardinality({k \in DOMAIN rs : rs[k].skipped})
        downloaded == successful - skipped
    IN  [total |-> total, successful |-> successful, downloaded |-> downloaded,
         skipped |-> skipped, failed |-> total - downloaded,
         total_size |-> SumSizes(rs, {k \in DOMAIN rs : rs[k].success})]

\* ImageDownloader.get_stats, without the formatted size
get_stats(rs) ==
    LET total == Len(rs)
        successful == Cardinality({k \in DOMAIN rs : rs[k].success})
        skipped == Cardinality({k \in DOMAIN rs : rs[k].skipped})
        downloaded == successful - skipped
        failed == total - successful
        total_size == SumSizes(rs, {k \in DOMAIN rs : rs[k].success})
    IN  [total |-> total, successful |-> successful, downloaded |-> downloaded,
         skipped |-> skipped, failed |-> failed, total_size |-> total_size]

(***************************************************************************)
(* The command line: main() runs download_all under asyncio.run and exits. *)
(***************************************************************************)
\* Ctrl-C while asyncio.run is running: every task that has not ended is
\* cancelled at its suspension point.  CancelledError is not an Exception, so
\* no handler of download_image runs: open files are closed, the semaphore is
\* left, and nothing is unlinked.  asyncio.run then raises KeyboardInterrupt.
Interrupt ==
    /\ phase = "running"
    /\ exit_status = <<>>
    /\ phase' = "interrupted"
    /\ unit' = [i \in Units |->
                   IF unit[i].pc = "done" THEN unit[i]
                   ELSE [NewUnit EXCEPT !.pc = "cancelled"]]
    /\ semaphore' = concurrent
    /\ UNCHANGED <<inputs, files, files0, started, completed, results, run, prev,
                   exit_status, call>>

ExitAlwaysZero(failed) == <<0>>

\* lines 204-232: sys.exit(1) when stats['failed'] > 0, else main returns
ExitOfStats(failed) == IF failed > 0 THEN <<1>> ELSE <<0>>

\* download_all returned: the summary is printed and the process exits.
ExitCompleted ==
    /\ phase = "returned"
    /\ exit_status = <<>>
    /\ exit_status' = ExitOfStats(get_stats(results).failed)
    /\ UNCHANGED <<inputs, files, files0, semaphore, unit, started, completed, phase,
                   results, run, prev, call>>

\* download_all raised: "except Exception" around asyncio.run, sys.exit(1)
ExitDownloadFailed ==
    /\ phase = "raised"
    /\ exit_status = <<>>
    /\ exit_status' = <<1>>
    /\ UNCHANGED <<inputs, files, files0, semaphore, unit, started, completed, phase,
                   results, run, prev, call>>

\* "except KeyboardInterrupt" of main: sys.exit(130)
ExitInterrupted ==
    /\ phase = "interrupted"
    /\ exit_status = <<>>
    /\ exit_status' = <<130>>
    /\ UNCHANGED <<inputs, files, files0, semaphore, unit, started, completed, phase,
                   results, run, prev, call>>

NextCli ==
    \/ Next
    \/ Interrupt
    \/ ExitCompleted
    \/ ExitDownloadFailed
    \/ ExitInterrupted

\* main always passes its on_progress callback.
InitCli == Init /\ progress_callback = TRUE

\* The download step of the command line, which the user may interrupt.
SpecCli == InitCli /\ [][NextCli]_vars


(***************************************************************************)
(* Functions called outside a run are applied to an argument drawn by the  *)
(* initial state, while no download is going on.                           *)
(***************************************************************************)
NoRun ==
    /\ entries = <<>>
    /\ concurrent = 0
    /\ max_retries = 0
    /\ progress_callback = FALSE
    /\ callback_raises = FALSE
    /\ files = [p \in Paths |-> NoFile]
    /\ files0 = files
    /\ semaphore = 0
    /\ unit = <<>>
    /\ started = 0
    /\ completed = <<>>
    /\ phase = "idle"
    /\ results = <<>>
    /\ run = "first"
    /\ prev = <<>>
    /\ exit_status = <<>>

run_vars == <<inputs, files, files0, semaphore, unit, started, completed, phase, results,
              run, prev, exit_status>>

\* The function fn is about to be applied to arg.
Calling(fn, arg) == [fn |-> fn, arg |-> arg, ret |-> <<>>, done |-> FALSE]

\* The call returns ret.
Returned(ret) == [call EXCEPT !.ret = ret, !.done = TRUE]

(***************************************************************************)
(* The catalog: api.py lists the children of an album and keeps the images *)
(* that have a download URL.                                               *)
(***************************************************************************)
\* item.get('@microsoft.graph.downloadUrl'): absent (None), empty, or a URL
DownloadUrls ==
    {[present |-> FALSE, value |-> ""], [present |-> TRUE, value |-> ""],
     [present |-> TRUE, value |-> "https://cdn/1"]}

TruthyWhenPresent(download_url) == download_url.present

\* "if download_url:"
Truthy(download_url) == download_url.present /\ download_url.value # ""

\* A file item of the listing; image is what is_image_file says of it.
FileItems ==
    {[name |-> "f", folder |-> FALSE, image |-> img, download_url |-> u, children |-> <<>>] :
        img \in BOOLEAN, u \in DownloadUrls}

\* Lists of at most n elements of S
ListsUpTo(S, n) == UNION {[1..k -> S] : k \in 0..n}

\* A folder item; children is what list_children returns for its id.
FolderItems ==
    {[name |-> "d", folder |-> TRUE, image |-> FALSE,
      download_url |-> [present |-> FALSE, value |-> ""], children |-> c] :
        c \in ListsUpTo(FileItems, MaxChildren - 1)}

Albums == ListsUpTo(FileItems \cup FolderItems, MaxChildren)

\* ImageItem(filename=item['name'], download_url=download_url, ...)
ImageItem(item) == [filename |-> item.name, download_url |-> item.download_url]

RECURSIVE get_image_items(_, _)
\* OneDriveAPIClient.get_image_items, children being list_children's answer
get_image_items(children, recursive) ==
    IF children = <<>> THEN <<>>
    ELSE LET item == Head(children)
             found == IF item.folder /\ recursive
                      THEN get_image_items(item.children, TRUE)
                      ELSE IF item.image /\ Truthy(item.download_url)
                      THEN <<ImageItem(item)>>
                      ELSE <<>>
         IN  found \o get_image_items(Tail(children), recursive)

get_shared_album_images_descending(children, recursive) ==
    get_image_items(children, recursive)

RECURSIVE get_shared_album_images(_, _)
\* OneDriveAPIClient.get_shared_album_images, children being
\* list_shared_children's answer
get_shared_album_images(children, recursive) ==
    IF children = <<>> THEN <<>>
    ELSE LET item == Head(children)
             found == IF item.image /\ Truthy(item.download_url)
                      THEN <<ImageItem(item)>>
                      ELSE <<>>
         IN  found \o get_shared_album_images(Tail(children), recursive)

InitCatalog ==
    /\ NoRun
    /\ \E fn \in {"get_image_items", "get_shared_album_images"}, children \in Albums,
          recursive \in BOOLEAN :
           call = Calling(fn, [children |-> children, recursive |-> recursive])

CallGetImageItems ==
    /\ call.fn = "get_image_items"
    /\ ~call.done
    /\ call' = Returned(get_image_items(call.arg.children, call.arg.recursive))
    /\ UNCHANGED run_vars

CallGetSharedAlbumImages ==
    /\ call.fn = "get_shared_album_images"
    /\ ~call.done
    /\ call' = Returned(get_shared_album_images(call.arg.children, call.arg.recursive))
    /\ UNCHANGED run_vars

NextCatalog ==
    \/ CallGetImageItems
    \/ CallGetSharedAlbumImages

\* One listing of an album.
SpecCatalog == InitCatalog /\ [][NextCatalog]_vars


(***************************************************************************)
(* sanitize_filename applied to a filename, and then to its own result.    *)
(* A filename is some characters, a padding of letters that may bring it   *)
(* over the length limit, and some more characters.                        *)
(***************************************************************************)
FilenameChars == {"a", ".", " ", "?"}

Padding(n) == [k \in 1..n |-> "a"]

PaddingLengths == {0} \cup ((MaxNameLength - MaxOver)..(MaxNameLength + MaxOver))

LongFilenames ==
    {h \o Padding(n) \o t :
        h \in ListsUpTo(FilenameChars, MaxAffix), n \in PaddingLengths,
        t \in ListsUpTo(FilenameChars, MaxAffix)}

\* Short filenames of all the characters the pattern names, and some others.
ShortFilenames == ListsUpTo(InvalidChars \cup {"a", ".", " "}, MaxAffix)

InitSanitize ==
    /\ NoRun
    /\ \E filename \in LongFilenames \cup ShortFilenames :
           call = Calling("sanitize_filename", [filename |-> filename, round |-> 1])

CallSanitize ==
    /\ call.fn = "sanitize_filename"
    /\ ~call.done
    /\ call' = Returned(sanitize_filename(call.arg.filename))
    /\ UNCHANGED run_vars

\* The result of the first call is sanitized again.
Resanitize ==
    /\ call.fn = "sanitize_filename"
    /\ call.done
    /\ call.arg.round = 1
    /\ call' = Calling("sanitize_filename", [filename |-> call.ret, round |-> 2])
    /\ UNCHANGED run_vars

NextSanitize ==
    \/ CallSanitize
    \/ Resanitize

SpecSanitize == InitSanitize /\ [][NextSanitize]_vars


(***************************************************************************)
(* format_size.  A byte count is written in base 1024, lowest limb first,  *)
(* so that counts of terabytes fit; it stays below 2^53, where float(n)    *)
(* and every division by 1024 are exact.                                   *)
(***************************************************************************)
Kibi == 1024
SizeUnits == <<<<"B">>, <<"K", "B">>, <<"M", "B">>, <<"G", "B">>, <<"T", "B">>>>

LimbValues == {0, 1, 5, 128, 512, 1023}
ByteCounts ==
    {low \o <<top>> : low \in [1..5 -> LimbValues], top \in 0..MaxTopLimb}

DecimalDigits == <<"0", "1", "2", "3", "4", "5", "6", "7", "8", "9">>

RECURSIVE Digits(_)
\* the decimal numeral of a natural number
Digits(n) ==
    IF n < 10 THEN <<DecimalDigits[n + 1]>>
    ELSE Digits(n \div 10) \o <<DecimalDigits[(n % 10) + 1]>>

OverKibi(limbs, unit_index) ==
    \/ \E j \in (unit_index + 3)..Len(limbs) : limbs[j] # 0
    \/ /\ unit_index + 2 <= Len(limbs)
       /\ limbs[unit_index + 2] > 1
    \/ /\ unit_index + 2 <= Len(limbs)
       /\ limbs[unit_index + 2] = 1
       /\ \E j \in 1..(unit_index + 1) : limbs[j] # 0

\* "size >= 1024" after unit_index divisions by 1024
AtLeastKibi(limbs, unit_index) == \E j \in (unit_index + 2)..Len(limbs) : limbs[j] # 0

RECURSIVE ScaleLoop(_, _)
\* while size >= 1024 and unit_index < len(units) - 1: size /= 1024; unit_index += 1
ScaleLoop(limbs, unit_index) ==
    IF AtLeastKibi(limbs, unit_index) /\ unit_index < Len(SizeUnits) - 1
    THEN ScaleLoop(limbs, unit_index + 1)
    ELSE unit_index

RECURSIVE WholePart(_, _)
\* the integer part of size after unit_index divisions
WholePart(limbs, unit_index) ==
    IF unit_index >= Len(limbs) THEN 0
    ELSE limbs[unit_index + 1] + Kibi * WholePart(limbs, unit_index + 1)

RECURSIVE TimesHundred(_, _, _)
\* The fraction of size, limbs[1..unit_index], times 100: the integer part of
\* the product and the limbs of its fraction, highest first.
TimesHundred(limbs, j, acc) ==
    IF j > acc.upto THEN acc
    ELSE LET t == limbs[j] * 100 + acc.carry
         IN  TimesHundred(limbs, j + 1,
                          [upto |-> acc.upto, carry |-> t \div Kibi,
                           rest |-> <<t % Kibi>> \o acc.rest])

\* f"{size:.2f}": the nearest hundredth, an exact tie going to the even one
Hundredths(limbs, unit_index) ==
    LET p == TimesHundred(limbs, 1, [upto |-> unit_index, carry |-> 0, rest |-> <<>>])
        half == p.rest # <<>> /\ p.rest[1] = Kibi \div 2
                    /\ \A j \in 2..Len(p.rest) : p.rest[j] = 0
        over == p.rest # <<>> /\ p.rest[1] >= Kibi \div 2 /\ ~half
    IN  WholePart(limbs, unit_index) * 100 + p.carry
            + (IF over \/ (half /\ p.carry % 2 = 1) THEN 1 ELSE 0)

TwoDigits(n) == <<DecimalDigits[(n \div 10) + 1], DecimalDigits[(n % 10) + 1]>>

format_size(size_bytes) ==
    IF \A j \in DOMAIN size_bytes : size_bytes[j] = 0 THEN <<"0", " ", "B">>
    ELSE LET unit_index == ScaleLoop(size_bytes, 0)
         IN  IF unit_index = 0
             THEN Digits(WholePart(size_bytes, 0)) \o <<" ">> \o SizeUnits[1]
             ELSE LET h == Hundredths(size_bytes, unit_index)
                  IN  Digits(h \div 100) \o <<".">> \o TwoDigits(h % 100) \o <<" ">>
                          \o SizeUnits[unit_index + 1]

InitFormat ==
    /\ NoRun
    /\ \E size_bytes \in ByteCounts : call = Calling("format_size", size_bytes)

CallFormatSize ==
    /\ call.fn = "format_size"
    /\ ~call.done
    /\ call' = Returned(format_size(call.arg))
    /\ UNCHANGED run_vars

SpecFormat == InitFormat /\ [][CallFormatSize]_vars


(***************************************************************************)
(* parse_and_encode_url: the URL is parsed, its network location checked   *)
(* against the OneDrive hosts, and the whole URL encoded.                  *)
(***************************************************************************)
\* ord(c) of the characters of the URLs below
Ascii ==
    ("#" :> 35 @@
     "." :> 46 @@
     "/" :> 47 @@
     "1" :> 49 @@
     "3" :> 51 @@
     "4" :> 52 @@
     ":" :> 58 @@
     "?" :> 63 @@
     "@" :> 64 @@
     "C" :> 67 @@
     "D" :> 68 @@
     "E" :> 69 @@
     "I" :> 73 @@
     "L" :> 76 @@
     "M" :> 77 @@
     "N" :> 78 @@
     "O" :> 79 @@
     "R" :> 82 @@
     "S" :> 83 @@
     "V" :> 86 @@
     "a" :> 97 @@
     "c" :> 99 @@
     "d" :> 100 @@
     "e" :> 101 @@
     "h" :> 104 @@
     "i" :> 105 @@
     "l" :> 108 @@
     "m" :> 109 @@
     "n" :> 110 @@
     "o" :> 111 @@
     "p" :> 112 @@
     "r" :> 114 @@
     "s" :> 115 @@
     "t" :> 116 @@
     "u" :> 117 @@
     "v" :> 118 @@
     "x" :> 120)

\* str.lower() on those characters
Lower(s) ==
    LET up == ("C" :> "c" @@ "D" :> "d" @@ "E" :> "e" @@ "I" :> "i" @@ "L" :> "l" @@ "M" :> "m" @@ "N" :> "n" @@ "O" :> "o" @@ "R" :> "r" @@ "S" :> "s" @@ "V" :> "v")
    IN  [k \in DOMAIN s |-> IF s[k] \in DOMAIN up THEN up[s[k]] ELSE s[k]]

SchemeChars == DOMAIN Ascii \ {":", "/", "?", "#", "@"}

\* 1-based index of the first character of s from position k on that is in
\* set, or Len(s) + 1
RECURSIVE FindIn(_, _, _)
FindIn(s, k, set) ==
    IF k > Len(s) THEN Len(s) + 1
    ELSE IF s[k] \in set THEN k ELSE FindIn(s, k + 1, set)

\* urlparse(url).netloc: after an optional "scheme:", the text between "//"
\* and the next "/", "?" or "#"
Netloc(url) ==
    LET colon == FindIn(url, 1, {":"})
        scheme_end == IF /\ colon <= Len(url)
                         /\ colon > 1
                         /\ \A k \in 1..(colon - 1) : url[k] \in SchemeChars
                      THEN colon ELSE 0
        rest == SubSeq(url, scheme_end + 1, Len(url))
    IN  IF Len(rest) >= 2 /\ rest[1] = "/" /\ rest[2] = "/"
        THEN SubSeq(rest, 3, FindIn(rest, 3, {"/", "?", "#"}) - 1)
        ELSE <<>>

valid_hosts ==
    {<<"o", "n", "e", "d", "r", "i", "v", "e", ".", "l", "i", "v", "e", ".", "c", "o", "m">>,
     <<"1", "d", "r", "v", ".", "m", "s">>,
     <<"o", "n", "e", "d", "r", "i", "v", "e", ".", "c", "o", "m">>}

\* OneDriveURLParser.validate
validate(url) == Lower(Netloc(url)) \in valid_hosts

\* The alphabet of base64.urlsafe_b64encode
Base64Url == <<"A", "B", "C", "D", "E", "F", "G", "H", "I", "J", "K", "L", "M", "N", "O", "P", "Q", "R", "S", "T", "U", "V", "W", "X", "Y", "Z", "a", "b", "c", "d", "e", "f", "g", "h", "i", "j", "k", "l", "m", "n", "o", "p", "q", "r", "s", "t", "u", "v", "w", "x", "y", "z", "0", "1", "2", "3", "4", "5", "6", "7", "8", "9", "-", "_">>

RECURSIVE B64Encode(_)
\* base64.urlsafe_b64encode of a sequence of bytes, padded with "="
B64Encode(bytes) ==
    IF bytes = <<>> THEN <<>>
    ELSE LET b1 == bytes[1]
             b2 == IF Len(bytes) >= 2 THEN bytes[2] ELSE 0
             b3 == IF Len(bytes) >= 3 THEN bytes[3] ELSE 0
             c1 == Base64Url[(b1 \div 4) + 1]
             c2 == Base64Url[((b1 % 4) * 16 + b2 \div 16) + 1]
             c3 == Base64Url[((b2 % 16) * 4 + b3 \div 64) + 1]
             c4 == Base64Url[(b3 % 64) + 1]
         IN  IF Len(bytes) = 1 THEN <<c1, c2, "=", "=">>
             ELSE IF Len(bytes) = 2 THEN <<c1, c2, c3, "=">>
             ELSE <<c1, c2, c3, c4>> \o B64Encode(SubSeq(bytes, 4, Len(bytes)))

RECURSIVE RStripPad(_)
\* str.rstrip('=')
RStripPad(s) ==
    IF s # <<>> /\ s[Len(s)] = "=" THEN RStripPad(SubSeq(s, 1, Len(s) - 1)) ELSE s

\* utils.encode_sharing_url
encode_sharing_url(sharing_url) ==
    <<"u", "!">> \o RStripPad(B64Encode([k \in DOMAIN sharing_url |-> Ascii[sharing_url[k]]]))

\* parse_and_encode_url: the token, or ValueError raised
parse_and_encode_url(url) ==
    IF ~validate(url) THEN [raised |-> TRUE, value |-> <<>>]
    ELSE [raised |-> FALSE, value |-> encode_sharing_url(url)]

UrlSchemes == {<<>>, <<"h", "t", "t", "p", "s", ":", "/", "/">>}
UrlHosts ==
    valid_hosts \cup
    {<<"e", "x", "a", "m", "p", "l", "e", ".", "c", "o", "m">>,
     <<"O", "N", "E", "D", "R", "I", "V", "E", ".", "L", "I", "V", "E", ".", "C", "O", "M">>,
     <<"1", "D", "R", "V", ".", "M", "S">>}
UrlUsers == {<<>>, <<"u", "@">>}
UrlPorts == {<<>>, <<":", "4", "4", "3">>}
UrlPaths == {<<>>} \cup {<<"/">> \o [k \in 1..n |-> "x"] : n \in 0..MaxPath}

Urls ==
    {s \o u \o h \o p \o q :
        s \in UrlSchemes, u \in UrlUsers, h \in UrlHosts, p \in UrlPorts, q \in UrlPaths}

InitParse ==
    /\ NoRun
    /\ \E url \in Urls : call = Calling("parse_and_encode_url", url)

CallParseAndEncode ==
    /\ call.fn = "parse_and_encode_url"
    /\ ~call.done
    /\ call' = Returned(parse_and_encode_url(call.arg))
    /\ UNCHANGED run_vars

SpecParse == InitParse /\ [][CallParseAndEncode]_vars


(***************************************************************************)
(* download_all from the catalog entries: lines 176-187 build one          *)
(* download_image call per (filename, url, size, mime_type) tuple.         *)
(***************************************************************************)
DeclaredSizes == {0, MaxChunks}
MediaTypes == {"image/jpeg", "image/png"}

\* The entries handed to download_all, as get_shared_album_images makes them.
CatalogEntries ==
    {[filename |-> f, download_url |-> "url", size |-> s, mime_type |-> "image/jpeg"] :
        f \in Filenames, s \in DeclaredSizes}

\* The same entries with another declared size and media type.
Redeclared(image_items, size, mime_type) ==
    [k \in DOMAIN image_items |->
        [image_items[k] EXCEPT !.size = size, !.mime_type = mime_type]]

TasksOfNonEmpty(image_items) ==
    LET kept == SelectSeq(image_items, LAMBDA item : item.size > 0)
    IN  [k \in DOMAIN kept |-> [url |-> kept[k].download_url, filename |-> kept[k].filename]]

\* tasks: what each download_image is called with, besides the session, the
\* semaphore and the callback.
Tasks(image_items) ==
    [k \in DOMAIN image_items |->
        [url |-> image_items[k].download_url, filename |-> image_items[k].filename]]

TaskNames(tasks) == [k \in DOMAIN tasks |-> tasks[k].filename]

\* download_all is entered with image_items = call.arg.a; call.arg.b is the
\* list the compared run is given.
InitItems ==
    /\ \E a \in ListsUpTo(CatalogEntries, MaxEntries), s \in DeclaredSizes, m \in MediaTypes :
           call = Calling("download_all", [a |-> a, b |-> Redeclared(a, s, m)])
    /\ entries = <<>>
    /\ concurrent \in 1..MaxConcurrent
    /\ max_retries \in 0..MaxRerunRequests
    /\ Len(call.arg.a) <= Cardinality(Filenames)
    /\ Len(call.arg.a) * max_retries <= MaxRerunRequests
    /\ progress_callback \in BOOLEAN
    /\ callback_raises = FALSE
    /\ files \in InitFiles
    /\ files0 = files
    /\ semaphore = concurrent
    /\ unit = <<>>
    /\ started = 0
    /\ completed = <<>>
    /\ phase = "creating"
    /\ results = <<>>
    /\ run = "first"
    /\ prev = <<>>
    /\ exit_status = <<>>

\* The loop of lines 176-187, up to gather.
CreateTasks ==
    /\ phase = "creating"
    /\ entries' = TaskNames(Tasks(call.arg.a))
    /\ unit' = [i \in DOMAIN entries' |-> NewUnit]
    /\ phase' = "running"
    /\ UNCHANGED <<concurrent, max_retries, progress_callback, callback_raises, files, files0,
                   semaphore, started, completed, results, run, prev, exit_status, call>>

NextItems ==
    \/ CreateTasks
    \/ Next

\* One run of download_all from its image_items.
SpecItems == InitItems /\ [][NextItems]_vars

(***************************************************************************)
(* list_children and list_shared_children: the paging loop.  A URL is the  *)
(* number of the page it names, 0 standing for the empty string.           *)
(***************************************************************************)
MaxPages == 2
MaxPageRequests == 3

\* data.get('@odata.nextLink'): no such key, an empty link, or a page's URL
NextLinks ==
    {[present |-> FALSE, value |-> 0]} \cup {[present |-> TRUE, value |-> k] : k \in 0..MaxPages}

\* data.get('value', [])
PageValues ==
    {[present |-> FALSE, items |-> <<>>]} \cup
    {[present |-> TRUE, items |-> v] : v \in {<<>>, <<"x">>, <<"y", "x">>}}

\* What the server answers for one URL: an error status, or a page.
Pages ==
    {[ok |-> FALSE, value |-> [present |-> FALSE, items |-> <<>>],
      next |-> [present |-> FALSE, value |-> 0]]} \cup
    {[ok |-> TRUE, value |-> v, next |-> n] : v \in PageValues, n \in NextLinks}

Servers == ListsUpTo(Pages, MaxPages)

\* "while url:"
UrlTruthy(url) == url.present /\ url.value # 0

\* response.raise_for_status() passes: the URL names a page the server has.
StatusOk(pages, url) == url.value \in DOMAIN pages /\ pages[url.value].ok

\* The loop's variables at the head of "while url".
ListLoop(url, all_items, requested) ==
    [url |-> url, all_items |-> all_items, requested |-> requested]

ReturnPartial(loop) ==
    [raised |-> FALSE, value |-> loop.all_items, requested |-> loop.requested]

\* raise_for_status (or session.get) raises out of the function.
RaiseForStatus(loop) ==
    [raised |-> TRUE, value |-> <<>>, requested |-> loop.requested]

\* return all_items
ReturnAllItems(loop) ==
    [raised |-> FALSE, value |-> loop.all_items, requested |-> loop.requested]

InitList ==
    /\ NoRun
    /\ \E fn \in {"list_children", "list_shared_children"}, pages \in Servers :
           call = [Calling(fn, pages) EXCEPT
                      !.ret = ListLoop([present |-> TRUE, value |-> 1], <<>>, <<>>)]

Listing == call.fn \in {"list_children", "list_shared_children"} /\ ~call.done

\* One turn of the loop: get the page, check its status, extend all_items and
\* take the next link.
GetPage ==
    /\ Listing
    /\ UrlTruthy(call.ret.url)
    /\ Len(call.ret.requested) < MaxPageRequests
    /\ LET loop == [call.ret EXCEPT !.requested = Append(@, call.ret.url.value)]
       IN  IF StatusOk(call.arg, loop.url)
           THEN LET data == call.arg[loop.url.value]
                IN  call' = [call EXCEPT !.ret =
                                ListLoop(data.next,
                                         loop.all_items \o
                                             (IF data.value.present THEN data.value.items
                                              ELSE <<>>),
                                         loop.requested)]
           ELSE call' = Returned(RaiseForStatus(loop))
    /\ UNCHANGED run_vars

\* The loop ends at a falsy url.
ListReturns ==
    /\ Listing
    /\ ~UrlTruthy(call.ret.url)
    /\ call' = Returned(ReturnAllItems(call.ret))
    /\ UNCHANGED run_vars

NextList ==
    \/ GetPage
    \/ ListReturns

\* One call of list_children or list_shared_children.
SpecList == InitList /\ [][NextList]_vars

(***************************************************************************)
(* main: the stages of the command line before the download.  call.arg     *)
(* holds the options, call.ret the stages that have succeeded so far.      *)
(***************************************************************************)
MainStages == <<"get_access_token", "parse_and_encode_url", "get_album_info",
                "get_shared_album_images">>

\* The phase in which each stage of main runs, and the one that follows it.
StagePhase(k) == MainStages[k]
AfterStage(k) == IF k < Len(MainStages) THEN StagePhase(k + 1) ELSE "enumerated"

InitMain ==
    /\ \E dry_run \in BOOLEAN : call = Calling("main", [dry_run |-> dry_run])
    /\ entries = <<>>
    /\ concurrent \in 1..MaxConcurrent
    /\ max_retries \in 0..MaxRerunRequests
    /\ progress_callback = TRUE
    /\ callback_raises = FALSE
    /\ files \in InitFiles
    /\ files0 = files
    /\ semaphore = 0
    /\ unit = <<>>
    /\ started = 0
    /\ completed = <<>>
    /\ phase = StagePhase(1)
    /\ results = <<>>
    /\ run = "first"
    /\ prev = <<>>
    /\ exit_status = <<>>

\* sys.exit(status) before the download step
ExitEarly(status) ==
    /\ exit_status' = status
    /\ phase' = "exited"

\* Steps 1, 3 and 4 (lines 83-130): the stage returns, or raises, which its
\* except clause, or main's last one, turns into sys.exit(1).
RunStage(k) ==
    /\ phase = StagePhase(k)
    /\ k < Len(MainStages)
    /\ \E ok \in BOOLEAN :
           IF ok
           THEN /\ call' = [call EXCEPT !.ret = Append(@, MainStages[k])]
                /\ phase' = AfterStage(k)
                /\ UNCHANGED exit_status
           ELSE ExitEarly(<<1>>) /\ UNCHANGED call
    /\ UNCHANGED <<inputs, files, files0, semaphore, unit, started, completed, results,
                   run, prev>>

\* Step 5 (lines 136-147): the enumeration returns image_items or raises.
Enumerate ==
    /\ phase = StagePhase(Len(MainStages))
    /\ \E ok \in BOOLEAN :
           IF ok
           THEN /\ \E image_items \in EntryLists :
                       /\ Len(image_items) <= Cardinality(Filenames)
                       /\ Len(image_items) * max_retries <= MaxRerunRequests
                       /\ entries' = image_items
                /\ unit' = [i \in DOMAIN entries' |-> NewUnit]
                /\ call' = [call EXCEPT !.ret = Append(@, MainStages[Len(MainStages)])]
                /\ phase' = AfterStage(Len(MainStages))
                /\ UNCHANGED exit_status
           ELSE ExitEarly(<<1>>) /\ UNCHANGED <<entries, unit, call>>
    /\ UNCHANGED <<concurrent, max_retries, progress_callback, callback_raises, files, files0,
                   semaphore, started, completed, results, run, prev>>

AfterEnumerationNoDryRun(image_items, dry_run) ==
    IF image_items = <<>> THEN "exit" ELSE "download"

\* lines 149-172: what main does with the enumerated items
AfterEnumeration(image_items, dry_run) ==
    IF image_items = <<>> THEN "exit"
    ELSE IF dry_run THEN "exit"
    ELSE "download"

\* "if not image_items: sys.exit(0)", "if dry_run: sys.exit(0)", or on to
\* step 6, where ImageDownloader is constructed.
Decide ==
    /\ phase = "enumerated"
    /\ IF AfterEnumeration(entries, call.arg.dry_run) = "exit"
       THEN ExitEarly(<<0>>)
       ELSE phase' = "constructing" /\ UNCHANGED exit_status
    /\ UNCHANGED <<inputs, files, files0, semaphore, unit, started, completed, results,
                   run, prev, call>>

NextMain ==
    \/ \E k \in DOMAIN MainStages : RunStage(k)
    \/ Enumerate
    \/ Decide
    \/ Construct
    \/ EnterDownloadAll
    \/ Next
    \/ ExitCompleted
    \/ ExitDownloadFailed

\* One run of the command line.
SpecMain == InitMain /\ [][NextMain]_vars

(***************************************************************************)
(* OneDriveAuthenticator.get_access_token.  call.arg is what MSAL will     *)
(* answer, call.ret the authenticator's state: where it is, the cache's    *)
(* has_state_changed flag, and the writes of the cache file so far.        *)
(***************************************************************************)
\* What an MSAL acquisition returns: None, a dict without 'access_token' (an
\* error), or a dict with one.
MsalResults == {"None", "error", "access_token"}

\* The answers of one run: whether the cache holds an account, the result of
\* acquire_token_silent and whether it changed the cache, whether the device
\* flow could be initiated, the result of acquire_token_by_device_flow and
\* whether it changed the cache.
MsalAnswers ==
    [accounts : BOOLEAN, silent : MsalResults, silent_changes : BOOLEAN,
     user_code : BOOLEAN, device : {"error", "access_token"}, device_changes : BOOLEAN]

AuthStart ==
    [pc |-> "acquire_token_silent", has_state_changed |-> FALSE, writes |-> <<>>,
     silent |-> "pending", device_flow |-> FALSE, token |-> FALSE, raised |-> FALSE]

save_token_cache_always(auth) ==
    [auth EXCEPT !.writes = Append(@, [acquired |-> auth.token,
                                       changed |-> auth.has_state_changed]),
                 !.has_state_changed = FALSE]

\* _save_token_cache: the file is written when the cache has changed;
\* serialize() resets the flag.
save_token_cache(auth) ==
    IF auth.has_state_changed
    THEN [auth EXCEPT !.writes = Append(@, [acquired |-> auth.token,
                                            changed |-> auth.has_state_changed]),
                      !.has_state_changed = FALSE]
    ELSE auth

InitAuth ==
    /\ NoRun
    /\ \E answers \in MsalAnswers :
           call = [Calling("get_access_token", answers) EXCEPT !.ret = AuthStart]

Authenticating(pc) == call.fn = "get_access_token" /\ ~call.done /\ call.ret.pc = pc

\* acquire_token_silent, and "if token: return token" of get_access_token
AcquireSilent ==
    /\ Authenticating("acquire_token_silent")
    /\ LET asked == call.arg.accounts
           result == IF asked THEN call.arg.silent ELSE "None"
           auth == [call.ret EXCEPT
                       !.has_state_changed = @ \/ (asked /\ call.arg.silent_changes),
                       !.silent = result]
       IN  IF result = "access_token"
           THEN call' = Returned([save_token_cache([auth EXCEPT !.token = TRUE])
                                     EXCEPT !.pc = "returned"])
           ELSE call' = [call EXCEPT !.ret = [auth EXCEPT !.pc = "initiate_device_flow"]]
    /\ UNCHANGED run_vars

\* acquire_token_device_code up to the prompt: lines 80-103
InitiateDeviceFlow ==
    /\ Authenticating("initiate_device_flow")
    /\ LET auth == [call.ret EXCEPT !.device_flow = TRUE]
       IN  IF call.arg.user_code
           THEN call' = [call EXCEPT !.ret = [auth EXCEPT !.pc = "acquire_token_by_device_flow"]]
           ELSE call' = Returned([auth EXCEPT !.pc = "raised", !.raised = TRUE])
    /\ UNCHANGED run_vars

\* acquire_token_by_device_flow returns: lines 106-114
DeviceFlowEnds ==
    /\ Authenticating("acquire_token_by_device_flow")
    /\ LET auth == [call.ret EXCEPT !.has_state_changed = @ \/ call.arg.device_changes]
       IN  IF call.arg.device = "access_token"
           THEN call' = Returned([save_token_cache([auth EXCEPT !.token = TRUE])
                                     EXCEPT !.pc = "returned"])
           ELSE call' = Returned([auth EXCEPT !.pc = "raised", !.raised = TRUE])
    /\ UNCHANGED run_vars

NextAuth ==
    \/ AcquireSilent
    \/ InitiateDeviceFlow
    \/ DeviceFlowEnds

\* One call of get_access_token.
SpecAuth == InitAuth /\ [][NextAuth]_vars

(***************************************************************************)
(* The claims.                                                             *)
(***************************************************************************)
Admitted == {i \in Units : unit[i].held}
Transferring == {i \in Units : unit[i].pc \in {"req", "stream", "sleep"}}
Ended(i) == unit[i].pc \in {"done", "raised"}
DistinctNames == \A i, j \in Units : i # j => Dest(i) # Dest(j)

\* C1: at most `concurrent` units are admitted by the limiter and not yet
\* released (issuing a GET, streaming, or sleeping between attempts); a unit
\* that is not admitted holds no slot and has issued no request.
C1_ConcurrencyCap ==
    /\ Cardinality(Admitted) <= concurrent
    /\ Cardinality(Transferring) <= concurrent
    /\ semaphore = concurrent - Cardinality(Admitted)
    /\ \A i \in Units :
          /\ i \in Transferring => unit[i].held
          /\ unit[i].pc \in {"new", "wait"} => ~unit[i].held /\ unit[i].nreq = 0

C1_Witness ==
    /\ concurrent >= 1
    /\ Cardinality(Transferring) = concurrent
    /\ \E i \in Units : unit[i].pc = "wait"

\* C2: a unit that yields Failed leaves no file that it wrote at its
\* destination path, whichever error ended its last attempt.
C2_FailedLeavesNoFile ==
    \A i \in Units :
        IsFailed(unit[i].result) =>
            ~(files[Dest(i)].exists /\ files[Dest(i)].ino[1] = i)

\* C3: every unit that has ended has produced exactly one outcome and, when a
\* callback is given, has called it exactly once, with that outcome; a unit
\* that has not ended has produced none.
C3_ExactlyOneOutcome ==
    \A i \in Units :
        /\ Ended(i) =>
              /\ unit[i].result.made
              /\ unit[i].ncb = (IF progress_callback THEN 1 ELSE 0)
              /\ progress_callback => unit[i].reported = unit[i].result
        /\ ~Ended(i) => ~unit[i].result.made /\ unit[i].ncb = 0

\* C4: download_all returns one outcome per entry, the i-th being the outcome
\* of the i-th entry, whatever the order in which the units completed.
C4_InputOrder ==
    phase = "returned" =>
        /\ Len(results) = Len(entries)
        /\ \A i \in Units :
              /\ results[i] = unit[i].result
              /\ results[i].made
              /\ results[i].filename = Dest(i)

C4_Witness ==
    /\ phase = "returned"
    /\ Len(completed) = 2
    /\ completed[1] > completed[2]
    /\ results[1] # results[2]

\* C5: a unit whose destination file exists when it starts yields Skipped with
\* that file's size, issues no request, holds no limiter slot, and the file
\* stays as it was.
C5_SkipExisting ==
    \A i \in Units :
        (i <= started /\ files0[Dest(i)].exists) =>
            /\ unit[i].pc = "done"
            /\ IsSkipped(unit[i].result)
            /\ unit[i].result.size = files0[Dest(i)].size
            /\ unit[i].nreq = 0
            /\ ~unit[i].held
            /\ files[Dest(i)] = files0[Dest(i)]

C5_Witness ==
    \E i, j \in Units :
        /\ files0[Dest(i)].exists
        /\ IsSkipped(unit[i].result)
        /\ unit[i].result.size > 0
        /\ unit[j].pc = "stream"

\* C6: after a second run over the same entries (with distinct sanitized
\* names) and directory, every entry that was Success or Skipped in the first
\* run is Skipped with the same size, no entry that Failed in the first run is
\* Skipped, and only entries that Failed in the first run issued requests.
C6_Resume ==
    (run = "second" /\ phase = "returned" /\ DistinctNames) =>
        \A i \in Units :
            /\ (IsSuccess(prev[i]) \/ IsSkipped(prev[i])) =>
                  IsSkipped(results[i]) /\ results[i].size = prev[i].size
            /\ IsFailed(prev[i]) => ~IsSkipped(results[i])
            /\ unit[i].nreq > 0 => IsFailed(prev[i])

\* C7: a unit issues at most max_retries GETs; its k-th sleep lasts 2^(k-1)
\* seconds; it sleeps after each failed attempt but the last; and a unit that
\* yields Failed has issued exactly max_retries GETs, all failed.
C7_AttemptsAndBackoff ==
    \A i \in Units :
        /\ unit[i].nreq <= max_retries
        /\ \A k \in 1..Len(unit[i].sleeps) : unit[i].sleeps[k] = Pow2(k - 1)
        /\ Len(unit[i].sleeps) =
              (IF unit[i].nfail < max_retries THEN unit[i].nfail
               ELSE Max(max_retries - 1, 0))
        /\ (IsFailed(unit[i].result) \/ unit[i].pc = "raised") =>
              /\ unit[i].nreq = max_retries
              /\ unit[i].nfail = max_retries

C7_Witness ==
    \E i \in Units :
        /\ IsFailed(unit[i].result)
        /\ max_retries = 3
        /\ unit[i].sleeps = <<1, 2>>

C8_Counts ==
    \A i \in Units :
        /\ IsFailed(unit[i].result) => unit[i].nfail = max_retries
        /\ IsSuccess(unit[i].result) => unit[i].nreq = unit[i].nfail + 1
        /\ unit[i].pc \in {"req", "stream"} =>
              ~unit[i].result.made /\ unit[i].nreq = unit[i].nfail + 1
        /\ unit[i].pc = "sleep" =>
              ~unit[i].result.made /\ unit[i].nreq = unit[i].nfail
        /\ unit[i].nfail < max_retries => ~IsFailed(unit[i].result)

C8_NoAttemptAfterOutcome ==
    \A i \in Units :
        unit[i].result.made =>
            /\ unit'[i].nreq = unit[i].nreq
            /\ unit'[i].result = unit[i].result

\* C8: a unit yields Failed only when max_retries attempts have failed; the
\* attempt of a Success is the first one that did not fail; and once a unit
\* has its outcome it issues no request and keeps that outcome.
C8_RetriesExhaust == [](C8_Counts) /\ [][C8_NoAttemptAfterOutcome]_vars

C8_Witness ==
    \E i \in Units : IsSuccess(unit[i].result) /\ unit[i].nfail = 2

\* C9: download_all never raises because of an error inside a unit.
C9_NeverRaises == phase # "raised"

\* C10: with concurrent >= 1, a run that can take no further step has returned
\* the full list of outcomes.
C10_ReturnsFullList ==
    (concurrent >= 1 /\ ~ENABLED Next) =>
        (phase = "returned" /\ Len(results) = Len(entries))


\* C11: with a concurrency value below 1 the run raises before any unit
\* starts: no existence check and no callback happens, and a run that can go
\* no further has raised.
C11_SetupErrorsFatal ==
    concurrent < 1 =>
        /\ started = 0
        /\ \A i \in Units : unit[i].ncb = 0 /\ unit[i].nreq = 0
        /\ ~ENABLED NextSetup => phase = "raised"


\* C12: after an interrupt ends the run, no destination holds a partial file:
\* a unit that was cancelled has left no file of its own making on disk.
\* (Entries with distinct names, so that a file is written by one unit only.)
C12_InterruptLeavesNoPartial ==
    (phase = "interrupted" /\ DistinctNames) =>
        \A i \in Units :
            unit[i].pc = "cancelled" =>
                ~(files[Dest(i)].exists /\ files[Dest(i)].ino[1] = i)


\* C20: once the command line has exited, its status is 0 when download_all
\* returned no Failed outcome, 1 when it returned at least one, and 130 when
\* the run was interrupted; an interrupted run exits with neither 0 nor 1.
C20_ExitStatus ==
    exit_status # <<>> =>
        /\ (phase = "returned" /\ \A k \in DOMAIN results : ~IsFailed(results[k]))
               => exit_status = <<0>>
        /\ (phase = "returned" /\ \E k \in DOMAIN results : IsFailed(results[k]))
               => exit_status = <<1>>
        /\ phase = "interrupted" => exit_status = <<130>>
        /\ phase = "interrupted" => exit_status \notin {<<0>>, <<1>>}
        /\ exit_status = <<0>> => phase = "returned"

\* An interrupted run has exited, one of its units having Failed and another
\* having been cancelled in flight.
C20_Witness ==
    /\ exit_status = <<130>>
    /\ \E i \in Units : IsFailed(unit[i].result)
    /\ \E i \in Units : unit[i].pc = "cancelled"


\* C13: when calls of the callback may raise, the run is never aborted, and a
\* unit whose outcome was handed to the callback ends with that very outcome
\* after that single call, the file of a Success kept.
C13_CallbackIsolated ==
    callback_raises =>
        /\ phase # "raised"
        /\ \A i \in Units :
               unit[i].ncb > 0 =>
                   /\ unit[i].pc = "done"
                   /\ unit[i].ncb = 1
                   /\ unit[i].result = unit[i].reported
                   /\ IsSuccess(unit[i].reported) => files[Dest(i)].exists


\* C14: for the list download_all returns, get_stats gives non-negative
\* counts with downloaded + skipped + failed = total and
\* downloaded = successful - skipped, the three counts being the numbers of
\* Success, Skipped and Failed outcomes of the list.
C14_StatsCounts ==
    phase = "returned" =>
        LET s == get_stats(results)
        IN  /\ s.total = Len(results)
            /\ s.successful >= 0 /\ s.downloaded >= 0 /\ s.skipped >= 0 /\ s.failed >= 0
            /\ s.downloaded + s.skipped + s.failed = s.total
            /\ s.downloaded = s.successful - s.skipped
            /\ s.downloaded = Cardinality({k \in DOMAIN results : IsSuccess(results[k])})
            /\ s.skipped = Cardinality({k \in DOMAIN results : IsSkipped(results[k])})
            /\ s.failed = Cardinality({k \in DOMAIN results : IsFailed(results[k])})

\* A returned list holding a Skipped and a Failed outcome.
C14_Witness ==
    /\ phase = "returned"
    /\ \E k \in DOMAIN results : IsSkipped(results[k])
    /\ \E k \in DOMAIN results : IsFailed(results[k])

\* C15: get_stats' total_size is the sum of the sizes of the Success and
\* Skipped outcomes and leaves Failed ones out: Success(100), Skipped(50),
\* Failed gives 150, whatever size the Failed outcome carries.
C15_TotalSize ==
    /\ phase = "returned" =>
           get_stats(results).total_size =
               SumSizes(results, {k \in DOMAIN results :
                                      IsSuccess(results[k]) \/ IsSkipped(results[k])})
    /\ \A n \in {0, 7} :
           get_stats(<<DownloadResult(<<"a">>, TRUE, "", 100, FALSE),
                       DownloadResult(<<"b">>, TRUE, "", 50, TRUE),
                       DownloadResult(<<"c">>, FALSE, "Timeout", n, FALSE)>>).total_size = 150

\* A returned list holding a Success and a Skipped outcome, both with bytes.
C15_Witness ==
    /\ phase = "returned"
    /\ \E k \in DOMAIN results : IsSuccess(results[k]) /\ results[k].size > 0
    /\ \E k \in DOMAIN results : IsSkipped(results[k]) /\ results[k].size > 0

\* C16: an outcome of download_image carries an error string exactly when it
\* is Failed, and a Failed outcome has size 0.
C16_ErrorIffFailed ==
    \A i \in Units :
        LET r == unit[i].result
        IN  r.made =>
                /\ (r.error # "") <=> IsFailed(r)
                /\ IsFailed(r) => r.size = 0

\* One unit has Failed after writing a chunk and another has succeeded.
C16_Witness ==
    /\ \E i \in Units : IsFailed(unit[i].result) /\ files[Dest(i)].size > 0
    /\ \E i \in Units : IsSuccess(unit[i].result) /\ unit[i].result.size > 0


\* C17: for entries with distinct names, the size of a Success outcome is the
\* size of the file at its destination: the file holds what the successful
\* attempt streamed and nothing of an earlier attempt.
C17_SuccessSizeIsFileSize ==
    DistinctNames =>
        \A i \in Units :
            IsSuccess(unit[i].result) =>
                /\ files[Dest(i)].exists
                /\ files[Dest(i)].size = unit[i].result.size

\* A unit succeeded on a later attempt with a body shorter than the longest,
\* writing to the file its first attempt had created.
C17_Witness ==
    /\ DistinctNames
    /\ \E i \in Units :
           /\ IsSuccess(unit[i].result)
           /\ unit[i].attempt >= 1
           /\ unit[i].result.size < MaxChunks
           /\ files[Dest(i)].ino = <<i, 1>>

\* C18 (amended): for entries with distinct names, a Success of size 0 leaves
\* a zero-byte file at the destination, and in a later run over the same
\* directory the entry makes no request and ends Skipped with size 0.
C18_EmptyBodyThenSkipped ==
    DistinctNames =>
        /\ \A i \in Units :
               (IsSuccess(unit[i].result) /\ unit[i].result.size = 0) =>
                   files[Dest(i)].exists /\ files[Dest(i)].size = 0
        /\ run = "second" =>
               \A i \in Units :
                   (IsSuccess(prev[i]) /\ prev[i].size = 0) =>
                       /\ unit[i].nreq = 0
                       /\ unit[i].pc = "done" =>
                              IsSkipped(unit[i].result) /\ unit[i].result.size = 0

\* The second run has Skipped, with size 0, an entry the first run downloaded
\* from an empty body.
C18_Witness ==
    /\ DistinctNames
    /\ run = "second"
    /\ \E i \in Units :
           /\ IsSuccess(prev[i]) /\ prev[i].size = 0
           /\ IsSkipped(unit[i].result) /\ unit[i].result.size = 0
           /\ files[Dest(i)].exists /\ files[Dest(i)].size = 0

\* C18 as stated, for any entries: a Success of size 0 in one run is a Skipped
\* of size 0 in the next.
C18_AsStated ==
    run = "second" =>
        \A i \in Units :
            (IsSuccess(prev[i]) /\ prev[i].size = 0 /\ unit[i].pc = "done") =>
                IsSkipped(unit[i].result) /\ unit[i].result.size = 0


\* C19: an attempt answered with an error status has opened no file, and its
\* step creates and truncates no file; it counts as one failed attempt, is
\* followed by the backoff sleep of 2^attempt unless it was the last, and on
\* the last attempt ends the unit.
C19_BadStatusRetryable ==
    [][\A i \in Units :
           BadStatus(i) =>
               /\ unit[i].pc = "req"
               /\ \A p \in Paths : files'[p] = files[p] \/ ~files'[p].exists
               /\ unit'[i].nfail = unit[i].nfail + 1
               /\ unit'[i].nreq = unit[i].nreq
               /\ IF unit[i].attempt < max_retries - 1
                  THEN /\ unit'[i].pc = "sleep"
                       /\ unit'[i].sleeps = Append(unit[i].sleeps, Pow2(unit[i].attempt))
                  ELSE /\ unit'[i].pc \in {"done", "raised"}
                       /\ unit'[i].pc = "done" => IsFailed(unit'[i].result)]_vars

\* A unit has Failed on an error status after a retry, and its destination,
\* free before the run, is still free.
C19_Witness ==
    \E i \in Units :
        /\ IsFailed(unit[i].result)
        /\ unit[i].result.error = "ClientResponseError"
        /\ unit[i].sleeps # <<>>
        /\ ~files0[Dest(i)].exists
        /\ ~files[Dest(i)].exists


\* When download_all has returned with a callback given, the callback has been
\* called exactly once for each entry, with the outcome returned for it.
C21_CalledOncePerEntry ==
    (phase = "returned" /\ progress_callback) =>
        \A i \in Units : unit[i].ncb = 1 /\ unit[i].reported = results[i]

\* A call of the callback for a unit happens in the step in which that unit
\* completes, so calls follow the order of completion; no call happens once
\* download_all has returned.
C21_CalledAtCompletion ==
    \A i \in Units :
        unit'[i].ncb # unit[i].ncb =>
            /\ unit'[i].ncb = unit[i].ncb + 1
            /\ phase = "running"
            /\ completed' = Append(completed, i)
            /\ unit'[i].reported = unit'[i].result

\* C21: every call of the progress callback happens before download_all
\* returns, calls follow the order in which units complete, and at return the
\* callback has been called once for each entry.
C21_CallbackOrder == [](C21_CalledOncePerEntry) /\ [][C21_CalledAtCompletion]_vars

\* download_all has returned after the second entry completed, and was
\* reported, before the first.
C21_Witness ==
    /\ phase = "returned"
    /\ progress_callback
    /\ completed = <<2, 1>>
    /\ \A i \in Units : unit[i].ncb = 1


\* C22: every entry that get_image_items or get_shared_album_images returns
\* has a download URL that is present and not empty.
C22_NoEntryWithoutUrl ==
    (call.done /\ call.fn \in {"get_image_items", "get_shared_album_images"}) =>
        \A k \in DOMAIN call.ret :
            call.ret[k].download_url.present /\ call.ret[k].download_url.value # ""

\* A listing holding an image with an empty URL and an image with none has
\* been filtered, and an entry was returned.
C22_Witness ==
    /\ call.done
    /\ call.fn \in {"get_image_items", "get_shared_album_images"}
    /\ \E k \in DOMAIN call.arg.children :
           LET item == call.arg.children[k]
           IN  item.image /\ item.download_url.present /\ item.download_url.value = ""
    /\ \E k \in DOMAIN call.arg.children :
           LET item == call.arg.children[k]
           IN  item.folder /\ call.arg.recursive /\ item.children # <<>>
               /\ item.children[1].image /\ Truthy(item.children[1].download_url)
    /\ call.ret # <<>>


\* C23: the result of sanitize_filename is not empty and holds none of the
\* characters < > : " / \ | ? * and no control character; it is 'unnamed'
\* when the filename has nothing but dots and spaces, as "" and "..." do.
C23_SanitizedIsSafe ==
    (call.fn = "sanitize_filename" /\ call.done) =>
        /\ call.ret # <<>>
        /\ \A k \in DOMAIN call.ret : call.ret[k] \notin InvalidChars
        /\ (\A k \in DOMAIN call.arg.filename : call.arg.filename[k] \in StripChars)
               => call.ret = Unnamed

\* "..." has been sanitized to 'unnamed'.
C23_Witness ==
    /\ call.fn = "sanitize_filename"
    /\ call.done
    /\ call.arg.filename = <<".", ".", ".">>
    /\ call.ret = Unnamed

\* C24: the result of sanitize_filename has at most 255 characters, and when
\* the name was cut, the result still ends with the extension of the name.
C24_LengthLimit ==
    (call.fn = "sanitize_filename" /\ call.done) =>
        LET sanitized == Strip(ReplaceInvalid(call.arg.filename))
            ext == PathSuffix(sanitized)
        IN  /\ Len(call.ret) <= MaxNameLength
            /\ Len(sanitized) > MaxNameLength =>
                   /\ Len(call.ret) >= Len(ext)
                   /\ SubSeq(call.ret, Len(call.ret) - Len(ext) + 1, Len(call.ret)) = ext

\* C25: sanitizing the result of sanitize_filename gives that result again.
C25_Idempotent ==
    (call.fn = "sanitize_filename" /\ call.done /\ call.arg.round = 2) =>
        call.ret = call.arg.filename


\* The highest limb of a byte count that is not 0, or 0 for the count 0.
TopLimb(limbs) ==
    LET nz == {j \in DOMAIN limbs : limbs[j] # 0}
    IN  IF nz = {} THEN 0 ELSE CHOOSE j \in nz : \A d \in nz : d <= j

IsDigit(c) == \E d \in DOMAIN DecimalDigits : DecimalDigits[d] = c

\* C26: format_size gives "0 B" for 0, the integer n and the unit B for
\* 0 < n < 1024, and for n >= 1024 the largest of KB, MB, GB, TB in which the
\* value is at least 1, written with exactly two decimals; 1024 is "1.00 KB",
\* 1536 is "1.50 KB" and 1024 * 1024 is "1.00 MB".
C26_BinaryUnits ==
    (call.fn = "format_size" /\ call.done) =>
        LET n == call.arg
            r == call.ret
            top == TopLimb(n)
        IN  /\ top = 0 => r = <<"0", " ", "B">>
            /\ top = 1 => r = Digits(n[1]) \o <<" ", "B">>
            /\ top >= 2 =>
                   LET u == SizeUnits[IF top - 1 < 4 THEN top ELSE 5]
                       m == Len(r) - Len(u)
                   IN  /\ m >= 5
                       /\ SubSeq(r, m + 1, Len(r)) = u
                       /\ r[m] = " "
                       /\ IsDigit(r[m - 1]) /\ IsDigit(r[m - 2])
                       /\ r[m - 3] = "."
                       /\ \A j \in 1..(m - 4) : IsDigit(r[j])
                       /\ r[1] # "0"
            /\ n = <<0, 1, 0, 0, 0, 0>> => r = <<"1", ".", "0", "0", " ", "K", "B">>
            /\ n = <<512, 1, 0, 0, 0, 0>> => r = <<"1", ".", "5", "0", " ", "K", "B">>
            /\ n = <<0, 0, 1, 0, 0, 0>> => r = <<"1", ".", "0", "0", " ", "M", "B">>

\* 1536 has been formatted as "1.50 KB".
C26_Witness ==
    /\ call.fn = "format_size"
    /\ call.done
    /\ call.arg = <<512, 1, 0, 0, 0, 0>>
    /\ call.ret = <<"1", ".", "5", "0", " ", "K", "B">>


\* The host of a URL: its network location without "userinfo@" and ":port".
HostOf(url) ==
    LET netloc == Netloc(url)
        at == FindIn(netloc, 1, {"@"})
        hostport == IF at <= Len(netloc) THEN SubSeq(netloc, at + 1, Len(netloc)) ELSE netloc
    IN  SubSeq(hostport, 1, FindIn(hostport, 1, {":"}) - 1)

\* C27: parse_and_encode_url raises ValueError, and gives no token, exactly
\* when the host of the URL, in lower case, is none of onedrive.live.com,
\* 1drv.ms and onedrive.com; the token of an accepted URL starts with "u!",
\* holds no "=", and is the same whenever the URL is the same.
C27_RejectsForeignHosts ==
    (call.fn = "parse_and_encode_url" /\ call.done) =>
        /\ call.ret.raised <=> Lower(HostOf(call.arg)) \notin valid_hosts
        /\ call.ret.raised => call.ret.value = <<>>
        /\ ~call.ret.raised =>
               /\ SubSeq(call.ret.value, 1, 2) = <<"u", "!">>
               /\ \A k \in DOMAIN call.ret.value : call.ret.value[k] # "="
               /\ call.ret = parse_and_encode_url(call.arg)


\* C28: no unit ends through the code after the retry loop, whose outcome is
\* Failed with the error 'Unknown error'.
C28_FallThroughUnreached ==
    \A i \in Units : unit[i].result.error # "Unknown error"

\* Two different entries have the same destination, which no file held when
\* the run started.
Colliding(i, j) ==
    /\ i # j
    /\ Dest(i) = Dest(j)
    /\ ~files0[Dest(i)].exists

\* C29: the existence check is not protected against other units: of two
\* entries with the same sanitized name and no file there before the run,
\* neither is Skipped, as both pass the check before either creates the file.
C29_BothPassTheCheck ==
    \A i, j \in Units :
        Colliding(i, j) =>
            /\ ~IsSkipped(unit[i].result)
            /\ unit[i].pc # "new" /\ unit[j].pc = "new" => ~files[Dest(i)].exists

\* One of two colliding units reported Success, and the cleanup of the other,
\* which Failed, has deleted the file they shared.
C29_Witness ==
    \E i, j \in Units :
        /\ Colliding(i, j)
        /\ IsSuccess(unit[i].result)
        /\ IsFailed(unit[j].result)
        /\ unit[j].result.error \notin {"Timeout", "Unknown error"}
        /\ ~files[Dest(i)].exists

\* A unit that has ended holds no slot, and after download_all has returned
\* every slot is free.
C30_SlotsReleased ==
    /\ \A i \in Units : Ended(i) => ~unit[i].held
    /\ semaphore = concurrent - Cardinality(Admitted)
    /\ phase = "returned" => semaphore = concurrent

Sleeping == {i \in Units : unit[i].pc = "sleep"}

\* C31: a unit in a backoff sleep still holds its slot, and while `concurrent`
\* units are sleeping no waiting unit can be admitted.
C31_SlotKeptInBackoff ==
    /\ \A i \in Sleeping : unit[i].held
    /\ Cardinality(Sleeping) = concurrent => \A i \in Units : ~ENABLED Admit(i)

\* Every slot is held by a sleeping unit while another unit waits for one.
C31_Witness ==
    /\ concurrent >= 1
    /\ Cardinality(Sleeping) = concurrent
    /\ started = Len(entries)
    /\ \E i \in Units : unit[i].pc = "wait"


\* C32: the existence check comes before the limiter: once its task has
\* started, a unit whose file was there is Skipped, has had its callback, and
\* has neither waited for a slot nor taken one, whatever the other units hold.
C32_SkipNeedsNoSlot ==
    \A i \in Units :
        files0[Dest(i)].exists /\ i <= started =>
            /\ IsSkipped(unit[i].result)
            /\ unit[i].pc = "done"
            /\ unit[i].nreq = 0
            /\ progress_callback => unit[i].ncb = 1 /\ unit[i].reported = unit[i].result

\* A unit has just been Skipped while every slot is held by a unit in the
\* middle of its transfer.
C32_Witness ==
    /\ concurrent >= 1
    /\ SemLocked
    /\ progress_callback
    /\ \A j \in Units : unit[j].held => unit[j].pc \in {"req", "stream"}
    /\ \E i \in Units :
           /\ i = started
           /\ IsSkipped(unit[i].result)
           /\ unit[i].ncb = 1


\* C33: a unit's outcome does not depend on the declared size or the media
\* type: the units of a run are made from the names and URLs only, so that the
\* entries with other sizes and types give the same units and the same result
\* names, and an entry declared 0 bytes long is Skipped only when its file was
\* there and Failed only after a failed attempt or with no attempt allowed.
C33_DeclaredFieldsUnused ==
    phase # "creating" =>
        /\ Tasks(call.arg.a) = Tasks(call.arg.b)
        /\ entries = TaskNames(Tasks(call.arg.b))
        /\ \A i \in Units :
               /\ unit[i].result.made =>
                      unit[i].result.filename = sanitize_filename(call.arg.b[i].filename)
               /\ call.arg.a[i].size = 0 /\ IsSkipped(unit[i].result) =>
                      files0[Dest(i)].exists
               /\ call.arg.a[i].size = 0 /\ IsFailed(unit[i].result) =>
                      unit[i].nfail >= 1 \/ max_retries = 0
               /\ IsSuccess(unit[i].result) /\ phase = "returned" /\ DistinctNames =>
                      unit[i].result.size = files[Dest(i)].size

\* download_all has returned, with a Success for an entry declared 0 bytes
\* long, the compared entries differing from the given ones in both fields.
C33_Witness ==
    /\ call.fn = "download_all"
    /\ phase = "returned"
    /\ \E i \in Units :
           /\ call.arg.a[i].size = 0
           /\ call.arg.b[i].size # 0
           /\ call.arg.b[i].mime_type # call.arg.a[i].mime_type
           /\ IsSuccess(unit[i].result)
           /\ unit[i].result.size > 0


\* The image entries among the items of one listing, in the listing's order.
ImagesAmong(children) ==
    LET kept == SelectSeq(children, LAMBDA item : item.image /\ Truthy(item.download_url))
    IN  [k \in DOMAIN kept |-> ImageItem(kept[k])]

\* C34: get_shared_album_images returns the image entries among the top-level
\* children only, whatever `recursive` is: the other value of the flag gives
\* the same list.
C34_SharedListingIsFlat ==
    (call.done /\ call.fn = "get_shared_album_images") =>
        /\ call.ret = ImagesAmong(call.arg.children)
        /\ call.ret = get_shared_album_images(call.arg.children, ~call.arg.recursive)

\* A shared album with an image at the top and an image in a subfolder has
\* been listed with recursive = TRUE.
C34_Witness ==
    /\ call.done
    /\ call.fn = "get_shared_album_images"
    /\ call.arg.recursive
    /\ \E k \in DOMAIN call.arg.children :
           LET item == call.arg.children[k]
           IN  item.folder /\ ImagesAmong(item.children) # <<>>
    /\ Len(call.ret) = 1


RECURSIVE ItemsOf(_, _)
\* The items of the pages whose numbers are in `requested`, in that order
ItemsOf(pages, requested) ==
    IF requested = <<>> THEN <<>>
    ELSE pages[Head(requested)].value.items \o ItemsOf(pages, Tail(requested))

\* The requests made so far follow the links from the first URL, each page
\* but the last having answered without an error.
FollowsLinks(pages, requested) ==
    \A k \in DOMAIN requested :
        /\ k = 1 => requested[k] = 1
        /\ k > 1 => /\ requested[k - 1] \in DOMAIN pages
                    /\ pages[requested[k - 1]].ok
                    /\ pages[requested[k - 1]].next = [present |-> TRUE, value |-> requested[k]]

\* C35: the listing functions request the pages one after another along
\* '@odata.nextLink', return the items of all those pages in order, stop at
\* the first page without a next link, and raise, returning nothing, when a
\* page request fails.
C35_Pagination ==
    call.fn \in {"list_children", "list_shared_children"} =>
        LET pages == call.arg
            requested == call.ret.requested
            last == requested[Len(requested)]
        IN  /\ FollowsLinks(pages, requested)
            /\ ~call.done => call.ret.all_items = ItemsOf(pages, requested)
            /\ call.done /\ ~call.ret.raised =>
                   /\ requested # <<>>
                   /\ StatusOk(pages, [present |-> TRUE, value |-> last])
                   /\ ~UrlTruthy(pages[last].next)
                   /\ call.ret.value = ItemsOf(pages, requested)
            /\ call.done /\ call.ret.raised =>
                   /\ call.ret.value = <<>>
                   /\ ~StatusOk(pages, [present |-> TRUE, value |-> last])
            /\ \A k \in DOMAIN requested :
                   ~StatusOk(pages, [present |-> TRUE, value |-> requested[k]]) =>
                       call.done /\ call.ret.raised /\ k = Len(requested)

\* Two pages were requested and the items of both were returned.
C35_Witness ==
    /\ call.fn = "list_shared_children"
    /\ call.done
    /\ ~call.ret.raised
    /\ call.ret.requested = <<1, 2>>
    /\ call.ret.value = <<"y", "x", "x">>


\* The output directory may have been created, or a request sent.
DownloadStage ==
    phase \in {"constructing", "constructed", "running", "returned", "raised"}

\* s is the first stages of main, in their order.
StagePrefix(s) ==
    Len(s) <= Len(MainStages) /\ \A k \in DOMAIN s : s[k] = MainStages[k]

\* C36: the command line reaches the download step, where the output
\* directory is made and requests are sent, only after authentication, URL
\* validation, album lookup and enumeration have succeeded in that order, with
\* a non-empty album and no --dry-run; a failed stage exits with 1, an empty
\* album and a dry run exit with 0, and none of them has sent a request or
\* touched the directory.
C36_StagesBeforeDownload ==
    call.fn = "main" =>
        /\ StagePrefix(call.ret)
        /\ DownloadStage =>
               call.ret = MainStages /\ ~call.arg.dry_run /\ entries # <<>>
        /\ phase = "exited" =>
               /\ exit_status = IF call.ret = MainStages THEN <<0>> ELSE <<1>>
               /\ call.ret = MainStages => call.arg.dry_run \/ entries = <<>>
               /\ ~ENABLED NextMain
        /\ ~DownloadStage =>
               /\ started = 0
               /\ files = files0
               /\ \A i \in Units : unit[i].nreq = 0

\* A dry run of an album with entries has exited.
C36_Witness ==
    /\ call.fn = "main"
    /\ call.arg.dry_run
    /\ entries # <<>>
    /\ exit_status = <<0>>
    /\ phase = "exited"


\* C37: get_access_token starts the device-code flow only after the silent
\* acquisition has returned no token; when the device flow yields no access
\* token the call raises with the cache file unwritten; and every write of the
\* cache file follows a successful acquisition that changed the cache.
C37_TokenCache ==
    call.fn = "get_access_token" =>
        /\ call.ret.device_flow => call.ret.silent \in {"None", "error"}
        /\ call.ret.silent = "access_token" => ~call.ret.device_flow /\ call.done
        /\ (call.done /\ call.ret.device_flow /\ ~call.ret.token) =>
               call.ret.raised /\ call.ret.writes = <<>>
        /\ call.ret.raised => ~call.ret.token /\ call.ret.writes = <<>>
        /\ \A k \in DOMAIN call.ret.writes :
               call.ret.writes[k].acquired /\ call.ret.writes[k].changed
        /\ (call.done /\ call.ret.token /\ ~call.ret.has_state_changed) =>
               Len(call.ret.writes) <= 1

\* The silent acquisition changed the cache without giving a token, and the
\* device flow then failed: the call raised and nothing was written.
C37_Witness ==
    /\ call.fn = "get_access_token"
    /\ call.done
    /\ call.ret.raised
    /\ call.ret.device_flow
    /\ call.ret.has_state_changed
    /\ call.arg.user_code
    /\ call.ret.writes = <<>>

=============================================================================
